---- MODULE Spec2Model ----
(***************************************************************************)
(* Startup orchestration and account unlocking of the travis node          *)
(* (server/commands/services.go): startServices, startNode, unlockAccount, *)
(* getPassPhrase, ambiguousAddrRecovery, startTendermint and the wallet    *)
(* event goroutine spawned by startNode.                                   *)
(*                                                                         *)
(* Strings are sequences of one-character strings.  Go indices are kept    *)
(* 0-based (i, trials); TLA+ sequences are 1-based, so element i of a Go   *)
(* slice s is s[i + 1].                                                    *)
(***************************************************************************)
EXTENDS Integers, Sequences, FiniteSets, TLC

(* ---------------------------------------------------------------------- *)
(* Bounds of the model                                                     *)
(* ---------------------------------------------------------------------- *)
\* longest --unlock flag value explored by the unlocker specification
MaxFlagLen == 5
\* longest preloaded password list
MaxPw == 2
\* most key files in the keystore
NFiles == 3
\* number of hot-pluggable wallets
NWallets == 2
\* most wallet plug/unplug events of one run
MaxEvents == 2

(* ---------------------------------------------------------------------- *)
(* Program constants                                                       *)
(* ---------------------------------------------------------------------- *)
\* for trials := 0; trials < 3; trials++
MaxTrials == 3
\* events := make(chan accounts.WalletEvent, 16)
ChanCap == 16

(* ---------------------------------------------------------------------- *)
(* Input alphabets                                                         *)
(* ---------------------------------------------------------------------- *)
Comma == ","
Space == " "
Letters == {"a", "b"}
Chars == {Comma, Space} \cup Letters
Passwords == {"p1", "p2"}
Wallets == 1..NWallets

StringsUpTo(n) == UNION {[1..k -> Chars] : k \in 0..n}
PasswordLists == UNION {[1..k -> Passwords] : k \in 0..MaxPw}
\* a keystore: the key files in URL order, each with its address and the
\* passphrase that decrypts it
KeyFiles == [addr : Letters, pw : Passwords]
KeyStores == UNION {[1..k -> KeyFiles] : k \in 0..NFiles}

(* ---------------------------------------------------------------------- *)
(* strings.Split(s, ",") and strings.TrimSpace                             *)
(* ---------------------------------------------------------------------- *)
HasComma(s) == \E k \in 1..Len(s) : s[k] = Comma
FirstComma(s) == CHOOSE k \in 1..Len(s) : s[k] = Comma /\ \A j \in 1..(k - 1) : s[j] # Comma

RECURSIVE Split(_)
Split(s) ==
    IF ~HasComma(s) THEN <<s>>
    ELSE LET k == FirstComma(s)
         IN  <<SubSeq(s, 1, k - 1)>> \o Split(SubSeq(s, k + 1, Len(s)))

RECURSIVE TrimLeft(_)
TrimLeft(s) == IF s # <<>> /\ Head(s) = Space THEN TrimLeft(Tail(s)) ELSE s

RECURSIVE TrimRight(_)
TrimRight(s) ==
    IF s # <<>> /\ s[Len(s)] = Space THEN TrimRight(SubSeq(s, 1, Len(s) - 1)) ELSE s

\* variant: trailing blanks kept
TrimSpaceLeftOnly(s) == TrimLeft(s)

TrimSpace(s) == TrimRight(TrimLeft(s))

(* ---------------------------------------------------------------------- *)
(* State                                                                   *)
(* ---------------------------------------------------------------------- *)
VARIABLES
    \* configuration and environment, fixed at process start
    unlockFlag,     \* ctx.GlobalString(UnlockedAccountFlag): the raw string
    passwords,      \* ethUtils.MakePasswordList(ctx)
    ks,             \* the keystore's key files
    \* the main goroutine
    pc,             \* position of the main goroutine
    exited,         \* the process has terminated (Fatalf / os.Exit)
    exitWhy,        \* which call terminated it
    unlocks,        \* strings.Split of the flag
    i,              \* loop index of startNode's range loop (0-based)
    account,        \* unlockAccount: the resolved account
    trials,         \* unlockAccount: the retry counter (0-based)
    auth,           \* ambiguousAddrRecovery: the passphrase handed over
    matches,        \* ambiguousAddrRecovery: err.Matches (key file numbers)
    mIdx,           \* ambiguousAddrRecovery: position in the first range loop
    recLog,         \* ambiguousAddrRecovery: the Unlock calls of this pass
    match,          \* ambiguousAddrRecovery: *match (0 = nil)
    unlocked,       \* keystore: key files held decrypted in memory
    \* services
    execNode,       \* "none", "made", "running", "failed"
    backend,        \* the fetched *ethereum.Backend (0 = nil)
    attaches,       \* number of clients handed out by stack.Attach()
    rpcClient,      \* startServices: the attached client (0 = nil)
    ethApp,         \* the EthermintApplication and what it was built from
    srv,            \* the ABCI server: its state and its application
    basecoinApp,    \* the application made by createBaseCoinApp: "nil" or its name
    papp,           \* startTendermint: the client creator and its application
    tmNode,         \* "none", "failed", "running"
    returned,       \* what startServices returned
    \* the wallet event goroutine and the account manager
    subscribed,     \* Subscribe(events) was called
    events,         \* the buffered channel
    plugged,        \* wallets the account manager currently knows
    plugCount,      \* wallet plug and unplug events since Subscribe
    emitted,        \* every event sent to the channel so far
    wpc,            \* position of the goroutine
    stateReader,    \* the goroutine's attached client (0 = nil)
    wList,          \* the value of AccountManager().Wallets() it ranges over
    wIdx,           \* position in that range loop
    \* what the program did, in order
    resolveLog,     \* MakeAddress calls
    unlockLog,      \* ks.Unlock calls
    promptCount,    \* interactive PromptPassword calls
    report,         \* ambiguousAddrRecovery: the printed duplicate key files
    stageLog,       \* stages of startServices completed
    wLog            \* wallet Open / SelfDerive / Close calls of the goroutine

inputVars == <<unlockFlag, passwords, ks>>
mainVars == <<pc, exited, exitWhy, unlocks, i, account, trials, auth, matches, mIdx,
              recLog, match, unlocked>>
svcVars == <<execNode, backend, attaches, rpcClient, ethApp, srv, basecoinApp, papp,
             tmNode, returned>>
watchVars == <<subscribed, events, plugged, plugCount, emitted, wpc, stateReader, wList,
               wIdx>>
logVars == <<resolveLog, unlockLog, promptCount, report, stageLog, wLog>>
vars == <<inputVars, mainVars, svcVars, watchVars, logVars>>

NoAccount == [addr |-> "", url |-> 0]
NoApp == [made |-> FALSE, backend |-> 0, client |-> 0]
NoServer == [state |-> "none", app |-> "nil"]
NoCreator == [kind |-> "none", app |-> "nil"]
NotReturned == [done |-> FALSE, err |-> FALSE, backend |-> 0, rpcClient |-> 0,
                emt |-> "nil", tmNode |-> "nil"]

InitWith(flags, pwLists, keyStores, plugSets) ==
    /\ unlockFlag \in flags
    /\ passwords \in pwLists
    /\ ks \in keyStores
    /\ pc = "makeNode"
    /\ exited = FALSE
    /\ exitWhy = "none"
    /\ unlocks = <<>>
    /\ i = 0
    /\ account = NoAccount
    /\ trials = 0
    /\ auth = ""
    /\ matches = <<>>
    /\ mIdx = 0
    /\ recLog = <<>>
    /\ match = 0
    /\ unlocked = {}
    /\ execNode = "none"
    /\ backend = 0
    /\ attaches = 0
    /\ rpcClient = 0
    /\ ethApp = NoApp
    /\ srv = NoServer
    /\ basecoinApp = "nil"
    /\ papp = NoCreator
    /\ tmNode = "none"
    /\ returned = NotReturned
    /\ subscribed = FALSE
    /\ events = <<>>
    /\ plugged \in plugSets
    /\ plugCount = 0
    /\ emitted = <<>>
    /\ wpc = "none"
    /\ stateReader = 0
    /\ wList = <<>>
    /\ wIdx = 0
    /\ resolveLog = <<>>
    /\ unlockLog = <<>>
    /\ promptCount = 0
    /\ report = <<>>
    /\ stageLog = <<>>
    /\ wLog = <<>>

(* ---------------------------------------------------------------------- *)
(* Process termination: ethUtils.Fatalf and os.Exit(1) end every goroutine *)
(* ---------------------------------------------------------------------- *)
Running == ~exited

Fatalf(why) ==
    /\ exited' = TRUE
    /\ exitWhy' = why

(* ---------------------------------------------------------------------- *)
(* The keystore (go-ethereum accounts/keystore), as far as this file uses  *)
(* it                                                                      *)
(* ---------------------------------------------------------------------- *)
\* common.IsHexAddress: the letters stand for well-formed hex addresses
IsHexAddress(tok) == Len(tok) = 1 /\ tok[1] \in Letters

\* ethUtils.MakeAddress: a hex address resolves to an account without URL;
\* anything else is tried as a keystore index, which no string over Chars is
MakeAddress(store, tok) ==
    IF IsHexAddress(tok)
    THEN [err |-> FALSE, acct |-> [addr |-> tok[1], url |-> 0]]
    ELSE [err |-> TRUE, acct |-> NoAccount]

\* the key files of an address, in URL order (AmbiguousAddrError.Matches)
FilesOf(store, addr) ==
    SelectSeq([k \in 1..Len(store) |-> k], LAMBDA k : store[k].addr = addr)

\* reading and decrypting one key file
Decrypt(store, f, pw, io) ==
    IF io THEN "ioerr" ELSE IF store[f].pw # pw THEN "decrypt" ELSE "ok"

\* the error of ks.Unlock(acct, pw): "ok" is nil, "decrypt" is ErrDecrypt,
\* "ambiguous" is *AmbiguousAddrError; "nomatch" and "ioerr" are other errors
UnlockResult(store, acct, pw, io) ==
    IF acct.url # 0 THEN Decrypt(store, acct.url, pw, io)
    ELSE LET m == FilesOf(store, acct.addr)
         IN  IF Len(m) = 0 THEN "nomatch"
             ELSE IF Len(m) > 1 THEN "ambiguous"
             ELSE Decrypt(store, m[1], pw, io)

\* the key file a successful Unlock decrypted
UnlockFile(store, acct) ==
    IF acct.url # 0 THEN acct.url ELSE FilesOf(store, acct.addr)[1]

\* the keystore holds one decrypted key per address: unlocking an address
\* that is already unlocked keeps the key it holds
UnlockedAfter(store, held, f) ==
    IF \E g \in held : store[g].addr = store[f].addr THEN held ELSE held \cup {f}

(* ---------------------------------------------------------------------- *)
(* getPassPhrase, the branch taken when a password list was supplied       *)
(* ---------------------------------------------------------------------- *)
\* variant: an index past the list falls back to the first password
GetPassPhraseFirst(idx, pws) ==
    IF idx < Len(pws) THEN pws[idx + 1] ELSE pws[1]

GetPassPhrase(idx, pws) ==
    IF idx < Len(pws) THEN pws[idx + 1] ELSE pws[Len(pws)]

\* what the interactive prompt can yield: a passphrase or a read error
PromptFailed == "<prompt failed>"
PromptAnswers == Passwords \cup {PromptFailed}

(* ---------------------------------------------------------------------- *)
(* unlockAccount: what follows one ks.Unlock of the retry loop             *)
(* ---------------------------------------------------------------------- *)
\* variant: without the break on errors other than ErrDecrypt
AfterTrialRetryAll(res, t) ==
    IF res = "ok" THEN "return"
    ELSE IF res = "ambiguous" THEN "recover"
    ELSE IF t + 1 < MaxTrials THEN "retry"
    ELSE "fatal"

\* variant: without the return on success
AfterTrialNoReturn(res, t) ==
    IF res = "ambiguous" THEN "recover"
    ELSE IF res \notin {"ok", "decrypt"} THEN "fatal"
    ELSE IF t + 1 < MaxTrials THEN "retry"
    ELSE IF res = "ok" THEN "return"
    ELSE "fatal"

AfterTrial(res, t) ==
    IF res = "ok" THEN "return"
    ELSE IF res = "ambiguous" THEN "recover"
    ELSE IF res # "decrypt" THEN "fatal"
    ELSE IF t + 1 < MaxTrials THEN "retry"
    ELSE "fatal"

(* ---------------------------------------------------------------------- *)
(* startServices and startNode: the execution node                         *)
(* ---------------------------------------------------------------------- *)
\* emtUtils.MakeFullNode and emtUtils.StartNode: a failure is fatal
EmtMakeFullNode(ok) == IF ok THEN "made" ELSE "fatal"

\* variant: StartNode that returns to its caller although the start failed
EmtStartNodeReturns(ok) == "returns"

EmtStartNode(ok) == IF ok THEN "returns" ELSE "fatal"

MakeFullNode ==
    /\ Running /\ pc = "makeNode"
    /\ \E ok \in BOOLEAN :
        IF EmtMakeFullNode(ok) = "made"
        THEN /\ execNode' = "made"
             /\ pc' = "startNode"
             /\ UNCHANGED <<exited, exitWhy>>
        ELSE /\ Fatalf("MakeFullNode")
             /\ UNCHANGED <<execNode, pc>>
    /\ UNCHANGED <<inputVars, unlocks, i, account, trials, auth, matches, mIdx, recLog,
                   match, unlocked, backend, attaches, rpcClient, ethApp, srv,
                   basecoinApp, papp, tmNode, returned, watchVars, logVars>>

StartNode ==
    /\ Running /\ pc = "startNode"
    /\ \E ok \in BOOLEAN :
        /\ execNode' = IF ok THEN "running" ELSE "failed"
        /\ IF EmtStartNode(ok) = "returns"
           THEN /\ pc' = "readFlags"
                /\ stageLog' = Append(stageLog, "StartExecution")
                /\ UNCHANGED <<exited, exitWhy>>
           ELSE /\ Fatalf("StartNode")
                /\ UNCHANGED <<pc, stageLog>>
    /\ UNCHANGED <<inputVars, unlocks, i, account, trials, auth, matches, mIdx, recLog,
                   match, unlocked, backend, attaches, rpcClient, ethApp, srv,
                   basecoinApp, papp, tmNode, returned, watchVars, resolveLog,
                   unlockLog, promptCount, report, wLog>>

\* passwords := MakePasswordList(ctx); unlocks := strings.Split(flag, ",")
ReadFlags ==
    /\ Running /\ pc = "readFlags"
    /\ unlocks' = Split(unlockFlag)
    /\ i' = 0
    /\ pc' = "loop"
    /\ UNCHANGED <<inputVars, exited, exitWhy, account, trials, auth, matches, mIdx,
                   recLog, match, unlocked, svcVars, watchVars, logVars>>

(* ---------------------------------------------------------------------- *)
(* startNode: for i, account := range unlocks                              *)
(* ---------------------------------------------------------------------- *)
SkipBlank ==
    /\ Running /\ pc = "loop"
    /\ i < Len(unlocks)
    /\ TrimSpace(unlocks[i + 1]) = <<>>
    /\ i' = i + 1
    /\ UNCHANGED <<inputVars, pc, exited, exitWhy, unlocks, account, trials, auth,
                   matches, mIdx, recLog, match, unlocked, svcVars, watchVars, logVars>>

\* variant: the error of MakeAddress ignored
OnResolveErrorIgnored(err) == "go on"

\* if err != nil { Fatalf("Could not list accounts: %v", err) }
OnResolveError(err) == IF err THEN "fatal" ELSE "go on"

\* unlockAccount is entered with the trimmed entry; account, err := MakeAddress
ResolveAddress ==
    /\ Running /\ pc = "loop"
    /\ i < Len(unlocks)
    /\ LET trimmed == TrimSpace(unlocks[i + 1])
           r == MakeAddress(ks, trimmed)
       IN  /\ trimmed # <<>>
           /\ resolveLog' = Append(resolveLog, [idx |-> i, address |-> trimmed,
                                                ok |-> ~r.err])
           /\ IF OnResolveError(r.err) = "fatal"
              THEN /\ Fatalf("MakeAddress")
                   /\ UNCHANGED <<pc, account>>
              ELSE /\ account' = r.acct
                   /\ pc' = "trial"
                   /\ UNCHANGED <<exited, exitWhy>>
    /\ trials' = 0
    /\ auth' = ""
    /\ matches' = <<>>
    /\ mIdx' = 0
    /\ recLog' = <<>>
    /\ match' = 0
    /\ report' = <<>>
    /\ UNCHANGED <<inputVars, unlocks, i, unlocked, svcVars, watchVars, unlockLog,
                   promptCount, stageLog, wLog>>

\* variant: the number of addresses before this one, blank entries not counted
PasswordIndexNonBlank(pos, list) ==
    Cardinality({k \in 1..pos : TrimSpace(list[k]) # <<>>})

\* unlockAccount(ctx, ks, trimmed, i, passwords): the index of the range loop
PasswordIndex(pos, list) == pos

\* one pass of the retry loop: getPassPhrase, ks.Unlock, and what follows
TryUnlock ==
    /\ Running /\ pc = "trial"
    /\ \E answer \in (IF Len(passwords) > 0
                      THEN {GetPassPhrase(PasswordIndex(i, unlocks), passwords)}
                      ELSE PromptAnswers), io \in BOOLEAN :
        /\ promptCount' = IF Len(passwords) > 0 THEN promptCount ELSE promptCount + 1
        /\ IF answer = PromptFailed
           THEN /\ Fatalf("PromptPassword")
                /\ UNCHANGED <<pc, i, trials, auth, matches, mIdx, unlocked, unlockLog>>
           ELSE LET res == UnlockResult(ks, account, answer, io)
                    todo == AfterTrial(res, trials)
                IN  /\ unlockLog' = Append(unlockLog,
                            [idx |-> i, acct |-> account, pw |-> answer, res |-> res,
                             phase |-> "retry"])
                    /\ unlocked' = IF res = "ok"
                                   THEN UnlockedAfter(ks, unlocked, UnlockFile(ks, account))
                                   ELSE unlocked
                    /\ trials' = IF todo = "retry" THEN trials + 1 ELSE trials
                    /\ CASE todo = "return" ->
                                /\ pc' = "loop" /\ i' = i + 1
                                /\ UNCHANGED <<exited, exitWhy, auth, matches, mIdx>>
                         [] todo = "recover" ->
                                /\ pc' = "recover"
                                /\ auth' = answer
                                /\ matches' = FilesOf(ks, account.addr)
                                /\ mIdx' = 0
                                /\ UNCHANGED <<exited, exitWhy, i>>
                         [] todo = "retry" ->
                                UNCHANGED <<pc, exited, exitWhy, i, auth, matches, mIdx>>
                         [] todo = "fatal" ->
                                /\ Fatalf("Unlock")
                                /\ UNCHANGED <<pc, i, auth, matches, mIdx>>
    /\ UNCHANGED <<inputVars, unlocks, account, recLog, match, svcVars, watchVars,
                   resolveLog, report, stageLog, wLog>>

(* ---------------------------------------------------------------------- *)
(* ambiguousAddrRecovery                                                   *)
(* ---------------------------------------------------------------------- *)
\* variant: without the break
AfterCandidateNoBreak(res) == "next"

\* for _, a := range err.Matches { if ks.Unlock(a, auth) == nil { match = &a; break } }
AfterCandidate(res) == IF res = "ok" THEN "break" ELSE "next"

TryCandidate ==
    /\ Running /\ pc = "recover"
    /\ mIdx < Len(matches)
    /\ \E io \in BOOLEAN :
        LET f == matches[mIdx + 1]
            a == [addr |-> ks[f].addr, url |-> f]
            res == UnlockResult(ks, a, auth, io)
        IN  /\ unlockLog' = Append(unlockLog,
                    [idx |-> i, acct |-> a, pw |-> auth, res |-> res, phase |-> "recover"])
            /\ recLog' = Append(recLog, [file |-> f, res |-> res])
            /\ unlocked' = IF res = "ok" THEN UnlockedAfter(ks, unlocked, f) ELSE unlocked
            /\ match' = IF res = "ok" THEN f ELSE match
            /\ IF AfterCandidate(res) = "break"
               THEN pc' = "recovered" /\ UNCHANGED mIdx
               ELSE mIdx' = mIdx + 1 /\ UNCHANGED pc
    /\ UNCHANGED <<inputVars, exited, exitWhy, unlocks, i, account, trials, auth, matches,
                   svcVars, watchVars, resolveLog, promptCount, report, stageLog, wLog>>

\* variant: every candidate printed
DuplicatesAll(ms, m) == ms

\* the duplicate key files printed: every a of err.Matches with a != *match
Duplicates(ms, m) == SelectSeq(ms, LAMBDA a : a # m)

\* the range loop ran out, or broke: match == nil is fatal, else report
RecoveryEnd ==
    /\ Running
    /\ \/ pc = "recovered"
       \/ pc = "recover" /\ mIdx >= Len(matches)
    /\ IF match = 0
       THEN /\ Fatalf("ambiguousAddrRecovery")
            /\ UNCHANGED <<pc, i, report>>
       ELSE /\ report' = Duplicates(matches, match)
            /\ pc' = "loop"
            /\ i' = i + 1
            /\ UNCHANGED <<exited, exitWhy>>
    /\ UNCHANGED <<inputVars, unlocks, account, trials, auth, matches, mIdx, recLog, match,
                   unlocked, svcVars, watchVars, resolveLog, unlockLog, promptCount,
                   stageLog, wLog>>

\* variant: the range loop left before its last entry
LoopDoneEarly ==
    /\ Running /\ pc = "loop"
    /\ pc' = "subscribe"
    /\ UNCHANGED <<inputVars, exited, exitWhy, unlocks, i, account, trials, auth, matches,
                   mIdx, recLog, match, unlocked, svcVars, watchVars, logVars>>

\* the range loop of startNode is over
LoopDone ==
    /\ Running /\ pc = "loop"
    /\ i >= Len(unlocks)
    /\ pc' = "subscribe"
    /\ UNCHANGED <<inputVars, exited, exitWhy, unlocks, i, account, trials, auth, matches,
                   mIdx, recLog, match, unlocked, svcVars, watchVars, logVars>>

(* ---------------------------------------------------------------------- *)
(* startNode: the wallet event subscription and the goroutine              *)
(* ---------------------------------------------------------------------- *)
\* events := make(chan accounts.WalletEvent, 16); AccountManager().Subscribe(events)
Subscribe ==
    /\ Running /\ pc = "subscribe"
    /\ subscribed' = TRUE
    /\ pc' = "spawn"
    /\ UNCHANGED <<inputVars, exited, exitWhy, unlocks, i, account, trials, auth, matches,
                   mIdx, recLog, match, unlocked, svcVars, events, plugged, plugCount,
                   emitted, wpc, stateReader, wList, wIdx, logVars>>

\* go func() { ... }(): the goroutine exists, startNode returns
SpawnWatcher ==
    /\ Running /\ pc = "spawn"
    /\ wpc' = "attach"
    /\ pc' = "service"
    /\ stageLog' = Append(stageLog, "UnlockAccounts")
    /\ UNCHANGED <<inputVars, exited, exitWhy, unlocks, i, account, trials, auth, matches,
                   mIdx, recLog, match, unlocked, svcVars, subscribed, events, plugged,
                   plugCount, emitted, stateReader, wList, wIdx, resolveLog, unlockLog,
                   promptCount, report, wLog>>

(* ---------------------------------------------------------------------- *)
(* startServices after startNode                                           *)
(* ---------------------------------------------------------------------- *)
\* variant: the error of Service ignored
OnServiceErrorIgnored(ok) == "go on"

\* if err := emNode.Service(&backend); err != nil { Fatalf }
OnServiceError(ok) == IF ok THEN "go on" ELSE "fatal"

ResolveBackend ==
    /\ Running /\ pc = "service"
    /\ \E ok \in BOOLEAN :
        /\ backend' = IF ok THEN 1 ELSE backend
        /\ IF OnServiceError(ok) = "go on"
           THEN /\ pc' = "attach"
                /\ stageLog' = Append(stageLog, "ResolveBackend")
                /\ UNCHANGED <<exited, exitWhy>>
           ELSE /\ Fatalf("Service")
                /\ UNCHANGED <<pc, stageLog>>
    /\ UNCHANGED <<inputVars, unlocks, i, account, trials, auth, matches, mIdx, recLog,
                   match, unlocked, execNode, attaches, rpcClient, ethApp, srv,
                   basecoinApp, papp, tmNode, returned, watchVars, resolveLog,
                   unlockLog, promptCount, report, wLog>>

\* rpcClient, err := emNode.Attach()
AttachClient ==
    /\ Running /\ pc = "attach"
    /\ \E ok \in BOOLEAN :
        IF ok
        THEN /\ attaches' = attaches + 1
             /\ rpcClient' = attaches + 1
             /\ pc' = "newApp"
             /\ stageLog' = Append(stageLog, "AttachClient")
             /\ UNCHANGED <<exited, exitWhy>>
        ELSE /\ Fatalf("Attach")
             /\ UNCHANGED <<attaches, rpcClient, pc, stageLog>>
    /\ UNCHANGED <<inputVars, unlocks, i, account, trials, auth, matches, mIdx, recLog,
                   match, unlocked, execNode, backend, ethApp, srv, basecoinApp, papp,
                   tmNode, returned, watchVars, resolveLog, unlockLog, promptCount,
                   report, wLog>>

\* ethApp, err := abciApp.NewEthermintApplication(backend, rpcClient, nil)
NewEthermintApplication ==
    /\ Running /\ pc = "newApp"
    /\ \E ok \in BOOLEAN :
        IF ok
        THEN /\ ethApp' = [made |-> TRUE, backend |-> backend, client |-> rpcClient]
             /\ pc' = "newServer"
             /\ stageLog' = Append(stageLog, "BuildBridge")
             /\ UNCHANGED <<exited, exitWhy>>
        ELSE /\ Fatalf("NewEthermintApplication")
             /\ UNCHANGED <<ethApp, pc, stageLog>>
    /\ UNCHANGED <<inputVars, unlocks, i, account, trials, auth, matches, mIdx, recLog,
                   match, unlocked, execNode, backend, attaches, rpcClient, srv,
                   basecoinApp, papp, tmNode, returned, watchVars, resolveLog,
                   unlockLog, promptCount, report, wLog>>

\* srv, err := server.NewServer(addr, abci, ethApp)
NewServer ==
    /\ Running /\ pc = "newServer"
    /\ \E ok \in BOOLEAN :
        IF ok
        THEN /\ srv' = [state |-> "made", app |-> "ethApp"]
             /\ pc' = "srvStart"
             /\ UNCHANGED <<exited, exitWhy>>
        ELSE /\ Fatalf("NewServer")
             /\ UNCHANGED <<srv, pc>>
    /\ UNCHANGED <<inputVars, unlocks, i, account, trials, auth, matches, mIdx, recLog,
                   match, unlocked, execNode, backend, attaches, rpcClient, ethApp,
                   basecoinApp, papp, tmNode, returned, watchVars, logVars>>

\* srv.Start()
ServerStart ==
    /\ Running /\ pc = "srvStart"
    /\ \E ok \in BOOLEAN :
        IF ok
        THEN /\ srv' = [srv EXCEPT !.state = "running"]
             /\ pc' = "baseApp"
             /\ stageLog' = Append(stageLog, "StartApplicationServer")
             /\ UNCHANGED <<exited, exitWhy>>
        ELSE /\ Fatalf("srv.Start")
             /\ UNCHANGED <<srv, pc, stageLog>>
    /\ UNCHANGED <<inputVars, unlocks, i, account, trials, auth, matches, mIdx, recLog,
                   match, unlocked, execNode, backend, attaches, rpcClient, ethApp,
                   basecoinApp, papp, tmNode, returned, watchVars, resolveLog,
                   unlockLog, promptCount, report, wLog>>

\* basecoinApp, err := createBaseCoinApp(rootDir, storeApp)
CreateBaseCoinApp ==
    /\ Running /\ pc = "baseApp"
    /\ \E ok \in BOOLEAN :
        IF ok
        THEN /\ basecoinApp' = "basecoinApp"
             /\ pc' = "tendermint"
             /\ UNCHANGED <<exited, exitWhy>>
        ELSE /\ Fatalf("createBaseCoinApp")
             /\ UNCHANGED <<basecoinApp, pc>>
    /\ UNCHANGED <<inputVars, unlocks, i, account, trials, auth, matches, mIdx, recLog,
                   match, unlocked, execNode, backend, attaches, rpcClient, ethApp, srv,
                   papp, tmNode, returned, watchVars, logVars>>

(* ---------------------------------------------------------------------- *)
(* startTendermint and its call in startServices                           *)
(* ---------------------------------------------------------------------- *)
\* the steps of startTendermint that can return an error
TendermintOutcomes == {"ParseConfig", "NewNode", "n.Start", "ok"}

\* variant: the remote client creator whatever the application
ClientCreatorRemote(app) == [kind |-> "remote", app |-> "nil"]

\* if basecoinApp != nil { NewLocalClientCreator } else { DefaultClientCreator }
ClientCreator(app) ==
    IF app # "nil" THEN [kind |-> "local", app |-> app]
    ELSE [kind |-> "remote", app |-> "nil"]

\* tmNode, err := startTendermint(basecoinApp); if err != nil { Println; os.Exit(1) }
StartTendermint ==
    /\ Running /\ pc = "tendermint"
    /\ \E out \in TendermintOutcomes :
        /\ papp' = IF out = "ParseConfig" THEN papp ELSE ClientCreator(basecoinApp)
        /\ IF out = "ok"
           THEN /\ tmNode' = "running"
                /\ pc' = "return"
                /\ stageLog' = Append(stageLog, "StartConsensus")
                /\ UNCHANGED <<exited, exitWhy>>
           ELSE /\ tmNode' = "failed"
                /\ Fatalf("startTendermint")
                /\ UNCHANGED <<pc, stageLog>>
    /\ UNCHANGED <<inputVars, unlocks, i, account, trials, auth, matches, mIdx, recLog,
                   match, unlocked, execNode, backend, attaches, rpcClient, ethApp, srv,
                   basecoinApp, returned, watchVars, resolveLog, unlockLog, promptCount,
                   report, wLog>>

\* variant: the client field left unset
ServicesWithoutClient(b, c, s, n) ==
    [done |-> TRUE, err |-> FALSE, backend |-> b, rpcClient |-> 0, emt |-> s, tmNode |-> n]

\* &Services{backend, rpcClient, srv, tmNode}, with a nil error
Services(b, c, s, n) ==
    [done |-> TRUE, err |-> FALSE, backend |-> b, rpcClient |-> c, emt |-> s, tmNode |-> n]

\* return &Services{backend, rpcClient, srv, tmNode}, nil
Return ==
    /\ Running /\ pc = "return"
    /\ returned' = Services(backend, rpcClient, "srv", "tmNode")
    /\ pc' = "done"
    /\ UNCHANGED <<inputVars, exited, exitWhy, unlocks, i, account, trials, auth, matches,
                   mIdx, recLog, match, unlocked, execNode, backend, attaches, rpcClient,
                   ethApp, srv, basecoinApp, papp, tmNode, watchVars, logVars>>

(* ---------------------------------------------------------------------- *)
(* The account manager: wallets come and go; every subscriber is sent an   *)
(* event.  Changes before Subscribe are covered by the initial wallet set. *)
(* ---------------------------------------------------------------------- *)
WalletEvent(w, arrive) == [wallet |-> w, arrive |-> arrive]

Plug(w) ==
    /\ Running /\ subscribed
    /\ plugCount < MaxEvents
    /\ Len(events) < ChanCap
    /\ w \notin plugged
    /\ plugged' = plugged \cup {w}
    /\ plugCount' = plugCount + 1
    /\ events' = Append(events, WalletEvent(w, TRUE))
    /\ emitted' = Append(emitted, WalletEvent(w, TRUE))
    /\ UNCHANGED <<inputVars, mainVars, svcVars, subscribed, wpc, stateReader, wList,
                   wIdx, logVars>>

Unplug(w) ==
    /\ Running /\ subscribed
    /\ plugCount < MaxEvents
    /\ Len(events) < ChanCap
    /\ w \in plugged
    /\ plugged' = plugged \ {w}
    /\ plugCount' = plugCount + 1
    /\ events' = Append(events, WalletEvent(w, FALSE))
    /\ emitted' = Append(emitted, WalletEvent(w, FALSE))
    /\ UNCHANGED <<inputVars, mainVars, svcVars, subscribed, wpc, stateReader, wList,
                   wIdx, logVars>>

\* AccountManager().Wallets(): the known wallets, sorted by URL
RECURSIVE SortedSeq(_)
SortedSeq(S) ==
    IF S = {} THEN <<>>
    ELSE LET m == CHOOSE x \in S : \A y \in S : x <= y
         IN  <<m>> \o SortedSeq(S \ {m})

(* ---------------------------------------------------------------------- *)
(* The goroutine of startNode                                              *)
(* ---------------------------------------------------------------------- *)
Call(op, w, ok, from) == [op |-> op, wallet |-> w, ok |-> ok, from |-> from,
                          reader |-> stateReader]

\* variant: SelfDerive outside the else branch
OpenAndDeriveAlways(w, ok, from) ==
    <<Call("Open", w, ok, from), Call("SelfDerive", w, TRUE, from)>>

\* wallet.Open(""), and on success wallet.SelfDerive(path, stateReader)
OpenAndDerive(w, ok, from) ==
    IF ok THEN <<Call("Open", w, TRUE, from), Call("SelfDerive", w, TRUE, from)>>
    ELSE <<Call("Open", w, FALSE, from)>>

\* variant: the goroutine returns on a failed Open
OnOpenErrorStop == "stop"

\* a failed Open is logged with log.Warn and the loop goes on
OnOpenError == "continue"

\* rpcClient, err := stack.Attach(); stateReader := ethclient.NewClient(rpcClient)
\* variant: the error of the goroutine's Attach ignored
OnWatcherAttachErrorIgnored(ok) == "go on"

\* if err != nil { Fatalf("Failed to attach to self: %v", err) }
OnWatcherAttachError(ok) == IF ok THEN "go on" ELSE "fatal"

WatcherAttach ==
    /\ Running /\ wpc = "attach"
    /\ \E ok \in BOOLEAN :
        /\ attaches' = IF ok THEN attaches + 1 ELSE attaches
        /\ stateReader' = IF ok THEN attaches + 1 ELSE stateReader
        /\ IF OnWatcherAttachError(ok) = "go on"
           THEN /\ wpc' = "wallets"
                /\ UNCHANGED <<exited, exitWhy>>
           ELSE /\ Fatalf("watcher Attach")
                /\ UNCHANGED wpc
    /\ UNCHANGED <<inputVars, pc, unlocks, i, account, trials, auth, matches, mIdx, recLog,
                   match, unlocked, execNode, backend, rpcClient, ethApp, srv, basecoinApp,
                   papp, tmNode, returned, subscribed, events, plugged, plugCount, emitted,
                   wList, wIdx, logVars>>

\* range stack.AccountManager().Wallets(): the range expression is evaluated once
ListWallets ==
    /\ Running /\ wpc = "wallets"
    /\ wList' = SortedSeq(plugged)
    /\ wIdx' = 0
    /\ wpc' = IF plugged = {} THEN "listen" ELSE "startup"
    /\ UNCHANGED <<inputVars, mainVars, svcVars, subscribed, events, plugged, plugCount,
                   emitted, stateReader, logVars>>

\* variant: the startup loop left after its first pass
AfterStartupPassBreak(idx, n) == "listen"

\* for _, wallet := range Wallets(): the next wallet, or on to the event loop
AfterStartupPass(idx, n) == IF idx + 1 < n THEN "startup" ELSE "listen"

\* one pass of the startup loop
StartupOpen ==
    /\ Running /\ wpc = "startup"
    /\ \E ok \in BOOLEAN :
        /\ wLog' = wLog \o OpenAndDerive(wList[wIdx + 1], ok, "startup")
        /\ IF ok \/ OnOpenError = "continue"
           THEN /\ wIdx' = wIdx + 1
                /\ wpc' = AfterStartupPass(wIdx, Len(wList))
           ELSE /\ wpc' = "stopped"
                /\ UNCHANGED wIdx
    /\ UNCHANGED <<inputVars, mainVars, svcVars, subscribed, events, plugged, plugCount,
                   emitted, stateReader, wList, resolveLog, unlockLog, promptCount,
                   report, stageLog>>

\* variant: the newest event taken first
ReceiveNewest(ch) == [event |-> ch[Len(ch)], rest |-> SubSeq(ch, 1, Len(ch) - 1)]

\* for event := range events: the receive
Receive(ch) == [event |-> Head(ch), rest |-> Tail(ch)]

\* one pass of the event loop
HandleEvent ==
    /\ Running /\ wpc = "listen"
    /\ events # <<>>
    /\ LET r == Receive(events)
       IN  /\ events' = r.rest
           /\ IF r.event.arrive
              THEN \E ok \in BOOLEAN :
                    /\ wLog' = wLog \o OpenAndDerive(r.event.wallet, ok, "event")
                    /\ wpc' = IF ok \/ OnOpenError = "continue" THEN "listen" ELSE "stopped"
              ELSE /\ wLog' = Append(wLog, Call("Close", r.event.wallet, TRUE, "event"))
                   /\ UNCHANGED wpc
    /\ UNCHANGED <<inputVars, mainVars, svcVars, subscribed, plugged, plugCount, emitted,
                   stateReader, wList, wIdx, resolveLog, unlockLog, promptCount, report,
                   stageLog>>

(* ---------------------------------------------------------------------- *)
(* Specifications.  The inputs are the flag value, the password list, the  *)
(* keystore and the wallets known at process start.                        *)
(* ---------------------------------------------------------------------- *)
\* one key file per address
PlainKeyStore == <<[addr |-> "a", pw |-> "p1"], [addr |-> "b", pw |-> "p1"]>>
\* address a has one key file, address b has two
MixedKeyStore == <<[addr |-> "a", pw |-> "p1"], [addr |-> "b", pw |-> "p1"],
                   [addr |-> "b", pw |-> "p2"]>>

ShortFlags == {s \in StringsUpTo(MaxFlagLen) : Len(s) <= 1}
ShortPasswordLists == {p \in PasswordLists : Len(p) <= 1}
ListFlags == {s \in StringsUpTo(MaxFlagLen) :
                Len(s) <= 3 /\ \A k \in 1..Len(s) : s[k] # Space}

\* The whole program: short flag values, no wallet known at process start
\* (wallets arrive once the node runs).
Init == InitWith(ShortFlags, ShortPasswordLists, {MixedKeyStore}, {{}})

Next ==
    \/ MakeFullNode
    \/ StartNode
    \/ ReadFlags
    \/ SkipBlank
    \/ ResolveAddress
    \/ TryUnlock
    \/ TryCandidate
    \/ RecoveryEnd
    \/ LoopDone
    \/ Subscribe
    \/ SpawnWatcher
    \/ ResolveBackend
    \/ AttachClient
    \/ NewEthermintApplication
    \/ NewServer
    \/ ServerStart
    \/ CreateBaseCoinApp
    \/ StartTendermint
    \/ Return
    \/ \E w \in Wallets : Plug(w)
    \/ \E w \in Wallets : Unplug(w)
    \/ WatcherAttach
    \/ ListWallets
    \/ StartupOpen
    \/ HandleEvent

Spec == Init /\ [][Next]_vars

\* The unlocker on its own, up to the end of startNode's range loop: every
\* flag value up to MaxFlagLen against PlainKeyStore, and every keystore
\* against the flag values of up to three characters without blanks.
InitUnlock ==
    \/ InitWith(StringsUpTo(MaxFlagLen), PasswordLists, {PlainKeyStore}, {{}})
    \/ InitWith(ListFlags, PasswordLists, KeyStores, {{}})

NextUnlock ==
    \/ MakeFullNode
    \/ StartNode
    \/ ReadFlags
    \/ SkipBlank
    \/ ResolveAddress
    \/ TryUnlock
    \/ TryCandidate
    \/ RecoveryEnd
    \/ LoopDone

SpecUnlock == InitUnlock /\ [][NextUnlock]_vars

\* The wallet event goroutine beside the main sequence: no account to
\* unlock, any set of wallets known at process start.
InitWatch == InitWith({<<>>}, {<<>>}, {PlainKeyStore}, SUBSET Wallets)

NextWatch ==
    \/ MakeFullNode
    \/ StartNode
    \/ ReadFlags
    \/ SkipBlank
    \/ LoopDone
    \/ Subscribe
    \/ SpawnWatcher
    \/ ResolveBackend
    \/ AttachClient
    \/ NewEthermintApplication
    \/ NewServer
    \/ ServerStart
    \/ CreateBaseCoinApp
    \/ StartTendermint
    \/ Return
    \/ \E w \in Wallets : Plug(w)
    \/ \E w \in Wallets : Unplug(w)
    \/ WatcherAttach
    \/ ListWallets
    \/ StartupOpen
    \/ HandleEvent

SpecWatch == InitWatch /\ [][NextWatch]_vars

\* The main sequence with a list of addresses to unlock: flag values of up
\* to five characters without blanks; no wallet comes or goes, so the
\* goroutine attaches, lists no wallet and waits.
MainFlags == {s \in StringsUpTo(MaxFlagLen) :
                Len(s) <= 5 /\ \A k \in 1..Len(s) : s[k] # Space}

InitMain == InitWith(MainFlags, PasswordLists, {MixedKeyStore}, {{}})

NextMain ==
    \/ MakeFullNode
    \/ StartNode
    \/ ReadFlags
    \/ SkipBlank
    \/ ResolveAddress
    \/ TryUnlock
    \/ TryCandidate
    \/ RecoveryEnd
    \/ LoopDone
    \/ Subscribe
    \/ SpawnWatcher
    \/ ResolveBackend
    \/ AttachClient
    \/ NewEthermintApplication
    \/ NewServer
    \/ ServerStart
    \/ CreateBaseCoinApp
    \/ StartTendermint
    \/ Return
    \/ WatcherAttach
    \/ ListWallets

SpecMain == InitMain /\ [][NextMain]_vars

(* ---------------------------------------------------------------------- *)
(* Stages of startServices, read off the state                             *)
(* ---------------------------------------------------------------------- *)
Began(stage) ==
    CASE stage = "StartExecution" -> execNode \in {"running", "failed"}
      [] stage = "UnlockAccounts" ->
            resolveLog # <<>> \/ unlockLog # <<>> \/ promptCount > 0 \/ subscribed
            \/ wpc # "none"
      [] stage = "ResolveBackend" -> backend # 0 \/ exitWhy = "Service"
      [] stage = "AttachClient" -> rpcClient # 0 \/ exitWhy = "Attach"
      [] stage = "BuildBridge" -> ethApp.made \/ exitWhy = "NewEthermintApplication"
      [] stage = "StartApplicationServer" ->
            srv.state # "none" \/ exitWhy \in {"NewServer", "srv.Start"}
      [] stage = "StartConsensus" ->
            basecoinApp # "nil" \/ tmNode # "none" \/ exitWhy = "createBaseCoinApp"

Completed(stage) ==
    CASE stage = "StartExecution" -> execNode = "running"
      [] stage = "UnlockAccounts" -> wpc # "none"
      [] stage = "ResolveBackend" -> backend # 0
      [] stage = "AttachClient" -> rpcClient # 0
      [] stage = "BuildBridge" -> ethApp.made
      [] stage = "StartApplicationServer" -> srv.state = "running"
      [] stage = "StartConsensus" -> tmNode = "running"

IsPrefix(p, q) == Len(p) <= Len(q) /\ \A k \in 1..Len(p) : p[k] = q[k]

\* every stage that began follows the completion of the one before it, and
\* the stages completed so far are an initial part of the order
StagesInOrder(order) ==
    /\ \A k \in 2..Len(order) : Began(order[k]) => Completed(order[k - 1])
    /\ IsPrefix(stageLog, order)

(* ---------------------------------------------------------------------- *)
(* Claims about startServices                                              *)
(* ---------------------------------------------------------------------- *)

(* C1: when the consensus node fails to be configured, constructed or     *)
(* started, startServices returns a non-nil error, the process does not   *)
(* exit, and the execution node and the application server stay running.  *)
(* startServices prints the error and calls os.Exit(1) instead.           *)
C1_ConsensusErrorReturned ==
    tmNode = "failed" =>
        /\ ~exited
        /\ returned.done /\ returned.err
        /\ execNode = "running"
        /\ srv.state = "running"

(* C2: if the execution node fails to start, nothing later is ever done:  *)
(* no address resolution, unlock or prompt, no subscription, no goroutine, *)
(* no backend lookup, no client attach, no application, no server and no   *)
(* consensus node.                                                         *)
C2_NothingAfterFailedStart ==
    execNode = "failed" =>
        /\ resolveLog = <<>> /\ unlockLog = <<>> /\ promptCount = 0
        /\ unlocks = <<>>
        /\ ~subscribed /\ wpc = "none" /\ wLog = <<>>
        /\ backend = 0
        /\ attaches = 0 /\ rpcClient = 0 /\ stateReader = 0
        /\ ethApp = NoApp
        /\ srv = NoServer
        /\ basecoinApp = "nil" /\ papp = NoCreator /\ tmNode = "none"
        /\ ~returned.done
        /\ stageLog = <<>>

C2_Witness == execNode = "failed" /\ exited /\ exitWhy = "StartNode"

(* C3, as claimed: the stages run in the order StartExecution,            *)
(* ResolveBackend, UnlockAccounts, AttachClient, BuildBridge,             *)
(* StartApplicationServer, StartConsensus, each after the one before it   *)
(* completed; nothing is resolved or unlocked and the goroutine is not    *)
(* spawned before the backend handle was fetched.                         *)
ClaimedOrder == <<"StartExecution", "ResolveBackend", "UnlockAccounts", "AttachClient",
                  "BuildBridge", "StartApplicationServer", "StartConsensus">>

C3_ClaimedStageOrder == StagesInOrder(ClaimedOrder)

(* C3, amended: the stages run in the order StartExecution,               *)
(* UnlockAccounts, ResolveBackend, AttachClient, BuildBridge,             *)
(* StartApplicationServer, StartConsensus, each after the one before it   *)
(* completed; the backend handle is fetched only after the accounts were  *)
(* unlocked and the goroutine was spawned.                                *)
CodeOrder == <<"StartExecution", "UnlockAccounts", "ResolveBackend", "AttachClient",
               "BuildBridge", "StartApplicationServer", "StartConsensus">>

C3_StageOrder == StagesInOrder(CodeOrder)

\* the backend service is missing, found out after an account was unlocked
\* and the goroutine spawned
C3_Witness ==
    /\ exitWhy = "Service"
    /\ \E k \in DOMAIN unlockLog : unlockLog[k].res = "ok"
    /\ wpc # "none"

(* ---------------------------------------------------------------------- *)
(* The entries of a flag value, read off the string without Split and      *)
(* TrimSpace                                                               *)
(* ---------------------------------------------------------------------- *)
\* the positions around the entries: before the string, the commas, after it
Cuts(s) == {0, Len(s) + 1} \cup {k \in 1..Len(s) : s[k] = Comma}

\* the entry without the blanks around it: from its first to its last
\* character that is not a blank
Kernel(s, lo, hi) ==
    LET solid == {k \in (lo + 1)..(hi - 1) : s[k] # Space}
    IN  IF solid = {} THEN <<>>
        ELSE LET first == CHOOSE k \in solid : \A j \in solid : k <= j
                 last == CHOOSE k \in solid : \A j \in solid : j <= k
             IN  SubSeq(s, first, last)

\* the resolutions due for a flag value: index and trimmed text of every
\* entry that is not blank, in listed order; entry number n (0-based) lies
\* between the n-th and the (n+1)-th cut
Due(s) ==
    LET cuts == SortedSeq(Cuts(s))
        entries == [n \in 1..(Len(cuts) - 1) |->
                        [idx |-> n - 1, address |-> Kernel(s, cuts[n], cuts[n + 1])]]
    IN  SelectSeq(entries, LAMBDA e : e.address # <<>>)

Resolved == [k \in 1..Len(resolveLog) |->
                [idx |-> resolveLog[k].idx, address |-> resolveLog[k].address]]

\* the Unlock calls of the retry loop for entry idx
RetryCalls(idx) ==
    SelectSeq(unlockLog, LAMBDA e : e.idx = idx /\ e.phase = "retry")

OtherErrors == {"nomatch", "ioerr"}

(* ---------------------------------------------------------------------- *)
(* Claims about the unlocker                                               *)
(* ---------------------------------------------------------------------- *)

(* C4: address resolution happens exactly once for each entry of the      *)
(* comma-separated list that is non-empty after trimming, in listed       *)
(* order, and never for a blank entry: the resolutions made so far are an *)
(* initial part of the due ones, and all of them once the loop is over.   *)
C4_ResolveOncePerEntry ==
    /\ LET due == Due(unlockFlag)
       IN  /\ IsPrefix(Resolved, due)
           /\ pc = "subscribe" => Resolved = due
    /\ \A k \in DOMAIN unlockLog :
            \E j \in DOMAIN resolveLog :
                resolveLog[j].ok /\ resolveLog[j].idx = unlockLog[k].idx

\* "a, ,b": the loop is over, two addresses were resolved, the blank entry
\* between them was not
C4_Witness ==
    /\ pc = "subscribe"
    /\ Len(unlocks) = 3
    /\ Len(resolveLog) = 2
    /\ resolveLog[1].idx = 0 /\ resolveLog[2].idx = 2
    /\ unlocks[2] = <<Space>>

(* C5: for one address the retry loop makes exactly 3 Unlock calls when   *)
(* every call returns a decryption error, and no Unlock call after the    *)
(* first call that returns an error which is neither a decryption nor an  *)
(* ambiguous-match error; both end in a fatal exit.  (An attempt whose    *)
(* interactive prompt fails makes no Unlock call and is fatal itself.)    *)
C5_RetryBound ==
    \A idx \in 0..Len(unlockFlag) :
        LET calls == RetryCalls(idx)
            n == Len(calls)
        IN  /\ n <= 3
            /\ \A k \in 1..(n - 1) : calls[k].res = "decrypt"
            /\ (n > 0 /\ calls[n].res \in OtherErrors) => exited /\ exitWhy = "Unlock"
            /\ (n = 3 /\ calls[3].res = "decrypt") => exited /\ exitWhy = "Unlock"
            /\ (n > 0 /\ n < 3 /\ calls[n].res = "decrypt") =>
                    \/ ~exited /\ pc = "trial" /\ i = idx
                    \/ exited /\ exitWhy = "PromptPassword"

\* three decryption errors in a row, then the fatal exit
C5_Witness ==
    /\ exited /\ exitWhy = "Unlock"
    /\ Len(RetryCalls(i)) = 3
    /\ \A k \in 1..3 : RetryCalls(i)[k].res = "decrypt"

(* C6: with a non-empty password list P nothing is prompted, and every    *)
(* Unlock call for the entry with origin index k uses P[k] if k < len(P)  *)
(* and the last entry of P otherwise; for the addresses "a, ,b" and       *)
(* P = [p1] the loop makes exactly two unlock attempts, a then b, each    *)
(* with p1.                                                               *)
C6_PasswordByOriginIndex ==
    /\ Len(passwords) > 0 =>
        /\ promptCount = 0
        /\ \A k \in DOMAIN unlockLog :
            LET e == unlockLog[k]
                last == Len(passwords) - 1
                at == IF e.idx < last THEN e.idx ELSE last
            IN  e.pw = passwords[at + 1]
    /\ (unlockFlag = <<"a", Comma, Space, Comma, "b">> /\ passwords = <<"p1">>) =>
        /\ \A k \in DOMAIN unlockLog : unlockLog[k].pw = "p1"
        /\ pc = "subscribe" =>
            /\ Resolved = <<[idx |-> 0, address |-> <<"a">>],
                            [idx |-> 2, address |-> <<"b">>]>>
            /\ Len(unlockLog) = 2
            /\ unlockLog[1].acct.addr = "a" /\ unlockLog[2].acct.addr = "b"

C6_Witness ==
    /\ unlockFlag = <<"a", Comma, Space, Comma, "b">>
    /\ passwords = <<"p1">>
    /\ pc = "subscribe"
    /\ Len(unlockLog) = 2
    /\ unlocked = {1, 2}

\* ambiguousAddrRecovery has returned for the current entry
RecoveryReturned == match # 0 /\ pc \notin {"recover", "recovered"}

\* position of key file f among the candidates
PlaceOf(f) == CHOOSE k \in DOMAIN matches : matches[k] = f

(* C7: the credential ambiguous-match recovery resolves to is the first   *)
(* candidate, in list order, that unlocks with the password already       *)
(* entered, and the duplicate files it reports are exactly the other      *)
(* candidates in their original order.                                    *)
C7_FirstMatchAndDuplicates ==
    RecoveryReturned =>
        /\ \E k \in DOMAIN matches : matches[k] = match
        /\ LET k == PlaceOf(match)
           IN  /\ ks[match].pw = auth
               /\ Len(recLog) >= k
               /\ recLog[k] = [file |-> match, res |-> "ok"]
               /\ \A j \in 1..(k - 1) :
                    /\ recLog[j].file = matches[j]
                    /\ recLog[j].res # "ok"
                    /\ ks[matches[j]].pw # auth \/ recLog[j].res = "ioerr"
               /\ report = SubSeq(matches, 1, k - 1) \o SubSeq(matches, k + 1, Len(matches))

\* candidates [1, 2, 3], the password unlocks only 2: resolved 2, reported [1, 3]
C7_Witness ==
    /\ RecoveryReturned
    /\ matches = <<1, 2, 3>>
    /\ ks[1].pw # auth /\ ks[2].pw = auth /\ ks[3].pw # auth
    /\ match = 2
    /\ report = <<1, 3>>

Consumed == SubSeq(emitted, 1, Len(emitted) - Len(events))

\* the Open and Close calls made for events, and the Open calls of the
\* startup loop
EventCalls ==
    SelectSeq(wLog, LAMBDA c : c.from = "event" /\ c.op \in {"Open", "Close"})
StartupCalls ==
    SelectSeq(wLog, LAMBDA c : c.from = "startup" /\ c.op = "Open")

(* C9: every event put on the channel is consumed exactly once and in     *)
(* channel order: the Open (arrival) and Close (departure) calls made for *)
(* events match the events sent, one to one and in order, and the events  *)
(* not yet consumed wait in the channel in the order sent.                *)
C9_EventsInOrder ==
    /\ Len(events) <= Len(emitted)
    /\ events = SubSeq(emitted, Len(emitted) - Len(events) + 1, Len(emitted))
    /\ Len(EventCalls) = Len(Consumed)
    /\ \A k \in 1..Len(EventCalls) :
        /\ EventCalls[k].wallet = emitted[k].wallet
        /\ EventCalls[k].op = IF emitted[k].arrive THEN "Open" ELSE "Close"

\* an arrival and then a departure were sent and both were handled
C9_Witness ==
    /\ Len(emitted) = 2 /\ events = <<>>
    /\ emitted[1].arrive /\ ~emitted[2].arrive
    /\ Len(EventCalls) = 2
    /\ EventCalls[1].op = "Open" /\ EventCalls[2].op = "Close"

(* C10: a wallet that fails to open, in the startup loop or on an arrival *)
(* event, never stops the goroutine and never ends the process: it gets   *)
(* no self-derivation for that occurrence, and every other known wallet   *)
(* and every later event is still handled.                                *)
C10_OpenFailureSkipsOneWallet ==
    /\ wpc \in {"none", "attach", "wallets", "startup", "listen"}
    /\ exitWhy \in {"none", "MakeFullNode", "StartNode", "Service", "Attach",
                    "NewEthermintApplication", "NewServer", "srv.Start",
                    "createBaseCoinApp", "startTendermint", "watcher Attach"}
    \* the startup loop has tried the known wallets one by one, up to its position
    /\ wIdx <= Len(wList)
    /\ Len(StartupCalls) = wIdx
    /\ \A k \in 1..wIdx : StartupCalls[k].wallet = wList[k]
    /\ wpc = "listen" => wIdx = Len(wList)
    /\ wpc = "startup" => wIdx < Len(wList)
    \* every event received was handled
    /\ Len(EventCalls) = Len(Consumed)
    \* self-derivation follows a successful Open of the same wallet, and only that
    /\ \A k \in DOMAIN wLog :
        /\ wLog[k].op = "SelfDerive" =>
            /\ k > 1
            /\ wLog[k - 1].op = "Open" /\ wLog[k - 1].ok
            /\ wLog[k - 1].wallet = wLog[k].wallet
        /\ (wLog[k].op = "Open" /\ ~wLog[k].ok /\ k < Len(wLog)) =>
            wLog[k + 1].op # "SelfDerive"
        /\ (wLog[k].op = "Open" /\ wLog[k].ok) =>
            k < Len(wLog) /\ wLog[k + 1].op = "SelfDerive"

\* the first known wallet failed to open, the second was opened and derived,
\* and an arrival that failed to open was followed by a handled event
C10_Witness ==
    /\ ~exited
    /\ Len(wList) = 2
    /\ Len(wLog) >= 5
    /\ wLog[1].op = "Open" /\ ~wLog[1].ok /\ wLog[1].from = "startup"
    /\ wLog[2].op = "Open" /\ wLog[2].ok /\ wLog[2].from = "startup"
    /\ \E j \in DOMAIN wLog : \E k \in DOMAIN wLog :
        /\ j < k
        /\ wLog[j].from = "event" /\ wLog[j].op = "Open" /\ ~wLog[j].ok
        /\ wLog[k].from = "event"

(* ---------------------------------------------------------------------- *)
(* Claims about fatal failures of the unlocker                             *)
(* ---------------------------------------------------------------------- *)
FatalUnlockExits == {"MakeAddress", "Unlock", "ambiguousAddrRecovery"}

\* every Unlock call made for entry idx, retry loop and recovery
CallsFor(idx) == SelectSeq(unlockLog, LAMBDA e : e.idx = idx)

\* nothing of startNode after the range loop and nothing of startServices
\* after startNode has happened
NothingAfterUnlocking ==
    /\ ~subscribed /\ wpc = "none" /\ wLog = <<>>
    /\ backend = 0 /\ attaches = 0 /\ rpcClient = 0 /\ stateReader = 0
    /\ ethApp = NoApp /\ srv = NoServer
    /\ basecoinApp = "nil" /\ papp = NoCreator /\ tmNode = "none"
    /\ ~returned.done
    /\ stageLog = <<"StartExecution">>

(* C11: a failed address resolution, a retry loop that ends without       *)
(* success and a recovery in which no candidate unlocks each end the      *)
(* process on the spot: no Unlock call is made for an address whose       *)
(* resolution failed, no later entry is resolved or unlocked, the         *)
(* subscription and the goroutine are never made and no later stage runs; *)
(* the loop moves past an entry only after its unlock succeeded.          *)
C11_UnlockFailuresFatal ==
    \* a failed resolution is the last thing the process did
    /\ \A k \in DOMAIN resolveLog :
        ~resolveLog[k].ok =>
            /\ exited /\ exitWhy = "MakeAddress"
            /\ k = Len(resolveLog)
            /\ CallsFor(resolveLog[k].idx) = <<>>
    \* an entry the loop has left behind was resolved and unlocked
    /\ \A k \in DOMAIN resolveLog :
        LET idx == resolveLog[k].idx
            calls == CallsFor(idx)
        IN  /\ idx <= i
            /\ idx < i => /\ resolveLog[k].ok
                          /\ calls # <<>>
                          /\ calls[Len(calls)].res = "ok"
    /\ \A k \in DOMAIN unlockLog : unlockLog[k].idx <= i
    \* the three fatal exits
    /\ exitWhy \in FatalUnlockExits =>
        /\ exited
        /\ pc \in {"loop", "trial", "recover", "recovered"}
        /\ i < Len(unlocks)
        /\ resolveLog # <<>> /\ resolveLog[Len(resolveLog)].idx = i
        /\ \A k \in DOMAIN unlockLog : unlockLog[k].idx = i => unlockLog[k].res # "ok"
        /\ NothingAfterUnlocking
    /\ exitWhy = "Unlock" =>
        LET calls == CallsFor(i)
        IN  /\ calls # <<>>
            /\ calls[Len(calls)].phase = "retry"
            /\ calls[Len(calls)].res \in {"decrypt", "nomatch", "ioerr"}
    /\ exitWhy = "ambiguousAddrRecovery" =>
        /\ match = 0
        /\ Len(matches) > 1
        /\ Len(recLog) = Len(matches)
        /\ \A k \in DOMAIN recLog : recLog[k].res # "ok"
    \* whatever follows the loop was reached with every entry dealt with
    /\ ~NothingAfterUnlocking => i = Len(unlocks) /\ exitWhy \notin FatalUnlockExits

\* "a,a,a" with passwords p1, p2: the first entry was unlocked, the second
\* failed three times, the third was never resolved
C11_Witness ==
    /\ exited /\ exitWhy = "Unlock"
    /\ Len(unlocks) = 3 /\ i = 1
    /\ TrimSpace(unlocks[3]) # <<>>
    /\ Len(resolveLog) = 2
    /\ Len(CallsFor(0)) = 1 /\ CallsFor(0)[1].res = "ok"
    /\ Len(CallsFor(1)) = 3

(* ---------------------------------------------------------------------- *)
(* Claims about the wiring of the services                                 *)
(* ---------------------------------------------------------------------- *)
\* the application objects of the process
Applications == {"nil", "ethApp", "basecoinApp"}

(* C12, as claimed: the application handed to the consensus node as its   *)
(* in-process backend is the EthermintApplication built in the            *)
(* BuildBridge stage, the object that is the ABCI server's handler; the   *)
(* remote client creator is used only when that object is nil.            *)
C12_ClaimedBridgeIsConsensusApp ==
    /\ papp.kind = "local" => ethApp.made /\ papp.app = "ethApp" /\ papp.app = srv.app
    /\ papp.kind = "remote" => ~ethApp.made

(* C12, amended: the application handed to the consensus node as its      *)
(* in-process backend is the one createBaseCoinApp returned, which is not *)
(* the EthermintApplication of the BuildBridge stage; that one is the     *)
(* handler of the ABCI server only.  The remote client creator is used    *)
(* only when the application handed to startTendermint is nil.            *)
C12_ConsensusApplication ==
    /\ papp # NoCreator =>
        /\ pc \in {"tendermint", "return", "done"}
        /\ basecoinApp # "nil"
        /\ papp.kind = "local" /\ papp.app = basecoinApp
        /\ ethApp.made /\ srv.state = "running" /\ srv.app = "ethApp"
        /\ papp.app # srv.app
    /\ tmNode = "running" => papp.kind = "local"
    /\ srv.state # "none" => ethApp.made /\ srv.app = "ethApp"
    /\ \A app \in Applications :
        /\ ClientCreator(app).kind = "remote" <=> app = "nil"
        /\ ClientCreator(app).kind = "local" <=> app # "nil"
        /\ ClientCreator(app).app = app

\* the consensus node runs on the basecoin application while the ABCI server
\* serves the EthermintApplication
C12_Witness ==
    /\ tmNode = "running"
    /\ papp = [kind |-> "local", app |-> "basecoinApp"]
    /\ srv = [state |-> "running", app |-> "ethApp"]
    /\ ethApp.made

(* ---------------------------------------------------------------------- *)
(* Claims about the main sequence and the goroutine                        *)
(* ---------------------------------------------------------------------- *)
\* positions of the main goroutine after the go statement, before the return
AfterSpawn == {"service", "attach", "newApp", "newServer", "srvStart", "baseApp",
               "tendermint", "return"}

\* a step of startServices after startNode has returned
MainStep ==
    \/ ResolveBackend
    \/ AttachClient
    \/ NewEthermintApplication
    \/ NewServer
    \/ ServerStart
    \/ CreateBaseCoinApp
    \/ StartTendermint
    \/ Return

(* C13: the subscription and the goroutine are made only after every      *)
(* requested address was resolved and its unlock returned successfully,   *)
(* the subscription first; once the goroutine is spawned the main         *)
(* sequence can take its next step whatever the goroutine has or has not  *)
(* done.                                                                  *)
C13_UnlockThenWatcher ==
    /\ (subscribed \/ wpc # "none") =>
        /\ pc \in {"spawn", "done"} \cup AfterSpawn
        /\ i = Len(unlocks)
        /\ Resolved = Due(unlockFlag)
        /\ \A k \in DOMAIN resolveLog :
            LET calls == CallsFor(resolveLog[k].idx)
            IN  /\ resolveLog[k].ok
                /\ calls # <<>>
                /\ calls[Len(calls)].res = "ok"
        /\ \A f \in DOMAIN ks :
            (\E k \in DOMAIN resolveLog : resolveLog[k].address = <<ks[f].addr>>) =>
                \E g \in unlocked : ks[g].addr = ks[f].addr
    /\ wpc # "none" => subscribed /\ pc \in {"done"} \cup AfterSpawn
    /\ (Running /\ pc \in AfterSpawn) => ENABLED MainStep

\* two addresses were unlocked, startServices has returned its handle, and
\* the goroutine has not taken a step yet
C13_Witness ==
    /\ pc = "done" /\ returned.done
    /\ wpc = "attach" /\ stateReader = 0
    /\ Len(resolveLog) = 2
    /\ Cardinality(unlocked) = 2

(* ---------------------------------------------------------------------- *)
(* Claims about the end of the retry loop                                  *)
(* ---------------------------------------------------------------------- *)
\* number of Unlock calls made by the retry loops so far
RetryCount == Len(SelectSeq(unlockLog, LAMBDA e : e.phase = "retry"))

(* C14: for one entry, a successful Unlock of the retry loop is the last  *)
(* Unlock call and the last password obtained for it; after an Unlock     *)
(* that returns an ambiguous-match error the retry loop is over, no       *)
(* password is obtained any more, and the only Unlock calls that follow   *)
(* for the entry are those of the recovery, on key files of that address  *)
(* with the password of that attempt.                                     *)
C14_RetryLoopEnds ==
    /\ \A k \in DOMAIN unlockLog :
        LET e == unlockLog[k]
        IN  /\ (e.phase = "retry" /\ e.res = "ok") =>
                /\ \A j \in (k + 1)..Len(unlockLog) : unlockLog[j].idx # e.idx
                /\ i > e.idx
            /\ (e.phase = "retry" /\ e.res = "ambiguous") =>
                /\ \A j \in (k + 1)..Len(unlockLog) :
                    unlockLog[j].idx = e.idx =>
                        /\ unlockLog[j].phase = "recover"
                        /\ unlockLog[j].pw = e.pw
                        /\ unlockLog[j].acct.addr = e.acct.addr
                        /\ unlockLog[j].acct.url # 0
                /\ i = e.idx => pc \in {"recover", "recovered"}
            /\ e.phase = "recover" =>
                \E j \in 1..(k - 1) :
                    /\ unlockLog[j].idx = e.idx
                    /\ unlockLog[j].phase = "retry" /\ unlockLog[j].res = "ambiguous"
    \* every password obtained went into one Unlock call of a retry loop
    /\ Len(passwords) = 0 =>
        promptCount = RetryCount + (IF exitWhy = "PromptPassword" THEN 1 ELSE 0)
    /\ Len(passwords) > 0 => promptCount = 0

\* prompted three times: a wrong and a right passphrase for the first entry;
\* one passphrase for the second, whose address is ambiguous, tried on two
\* key files by the recovery
C14_Witness ==
    /\ pc = "subscribe"
    /\ promptCount = 3
    /\ Len(unlockLog) = 5
    /\ [k \in 1..5 |-> unlockLog[k].res] = <<"decrypt", "ok", "ambiguous", "decrypt", "ok">>
    /\ [k \in 1..5 |-> unlockLog[k].idx] = <<0, 0, 1, 1, 1>>

(* ---------------------------------------------------------------------- *)
(* Claims about the phases of the goroutine                                *)
(* ---------------------------------------------------------------------- *)
(* C15: the goroutine receives nothing from the channel before its        *)
(* startup loop has tried Open on every wallet it listed, each successful *)
(* Open followed by SelfDerive; events sent meanwhile wait in the channel *)
(* and are handled afterwards in the order sent.                          *)
C15_StartupBeforeEvents ==
    \* nothing is received before the startup loop is over
    /\ wpc \in {"none", "attach", "wallets", "startup"} =>
        /\ events = emitted
        /\ \A k \in DOMAIN wLog : wLog[k].from = "startup"
    /\ (wpc = "listen" \/ Len(events) < Len(emitted)) =>
        /\ wIdx = Len(wList)
        /\ Len(StartupCalls) = Len(wList)
    \* the startup calls: the listed wallets, in order, before any event call
    /\ Len(StartupCalls) <= Len(wList)
    /\ \A k \in DOMAIN StartupCalls : StartupCalls[k].wallet = wList[k]
    /\ \A j \in DOMAIN wLog : \A k \in DOMAIN wLog :
        (wLog[j].from = "startup" /\ wLog[k].from = "event") => j < k
    /\ \A k \in DOMAIN wLog :
        (wLog[k].from = "startup" /\ wLog[k].op = "Open" /\ wLog[k].ok) =>
            /\ k < Len(wLog)
            /\ wLog[k + 1] = [wLog[k] EXCEPT !.op = "SelfDerive"]
    \* the listing is the set of wallets known when it was made
    /\ \A k \in 1..(Len(wList) - 1) : wList[k] < wList[k + 1]
    /\ (emitted = <<>> /\ wpc \in {"startup", "listen"}) =>
        {wList[k] : k \in DOMAIN wList} = plugged
    \* the queued events are handled in the order sent
    /\ Len(EventCalls) = Len(emitted) - Len(events)
    /\ events = SubSeq(emitted, Len(EventCalls) + 1, Len(emitted))
    /\ \A k \in DOMAIN EventCalls : EventCalls[k].wallet = emitted[k].wallet

\* two wallets were listed, the first has been tried, and two events sent
\* since the listing wait in the channel
C15_Witness ==
    /\ wpc = "startup"
    /\ wList = <<1, 2>> /\ wIdx = 1
    /\ Len(StartupCalls) = 1
    /\ emitted = <<WalletEvent(1, FALSE), WalletEvent(2, FALSE)>>
    /\ events = emitted

\* the calls made for events, SelfDerive left out, and the SelfDerive calls
EventOpenClose == SelectSeq(wLog, LAMBDA c : c.from = "event" /\ c.op # "SelfDerive")
Derivations == SelectSeq(wLog, LAMBDA c : c.op = "SelfDerive")

\* the calls a step adds to the log
NewCalls == SubSeq(wLog', Len(wLog) + 1, Len(wLog'))

\* SelfDerive comes directly after the goroutine's own successful Open of
\* the same wallet; an event handled is one Open (arrival) or one Close
\* (departure) of its wallet
DeriveAfterOwnOpen ==
    /\ \A k \in DOMAIN wLog :
        /\ wLog[k].op = "SelfDerive" =>
            /\ k > 1
            /\ wLog[k - 1].op = "Open" /\ wLog[k - 1].ok
            /\ wLog[k - 1].wallet = wLog[k].wallet
            /\ wLog[k - 1].from = wLog[k].from
        /\ wLog[k].op = "Close" =>
            /\ wLog[k].from = "event"
            /\ k < Len(wLog) => wLog[k + 1].op # "SelfDerive"
        /\ wLog[k].op \in {"Open", "SelfDerive", "Close"}
    /\ Len(EventOpenClose) = Len(emitted) - Len(events)
    /\ \A k \in DOMAIN EventOpenClose :
        /\ EventOpenClose[k].wallet = emitted[k].wallet
        /\ emitted[k].arrive => EventOpenClose[k].op = "Open"
        /\ ~emitted[k].arrive => EventOpenClose[k].op = "Close"

\* a step of the goroutine makes calls on one wallet only, at most one of
\* them SelfDerive; a step that receives a departure makes one call, Close
OneCallAtATime ==
    /\ Len(wLog') >= Len(wLog)
    /\ SubSeq(wLog', 1, Len(wLog)) = wLog
    /\ Len(NewCalls) <= 2
    /\ \A j \in DOMAIN NewCalls : NewCalls[j].wallet = NewCalls[1].wallet
    /\ Len(SelectSeq(NewCalls, LAMBDA c : c.op = "SelfDerive")) <= 1
    /\ (Len(events') < Len(events) /\ ~Head(events).arrive) =>
        NewCalls = <<[op |-> "Close", wallet |-> Head(events).wallet, ok |-> TRUE,
                     from |-> "event", reader |-> stateReader]>>
    /\ (Len(events') < Len(events) /\ Head(events).arrive) =>
        /\ NewCalls # <<>>
        /\ NewCalls[1].op = "Open" /\ NewCalls[1].wallet = Head(events).wallet

(* C16: the goroutine calls SelfDerive on a wallet only directly after    *)
(* its own successful Open of that wallet, in the startup loop or on an   *)
(* arrival; a departure causes exactly one Close of the wallet of the     *)
(* event and no Open or SelfDerive; the calls are made one after the      *)
(* other, never two SelfDerive calls in one step.                         *)
C16_DeriveOnlyAfterOpen == []DeriveAfterOwnOpen /\ [][OneCallAtATime]_vars

\* a wallet opened and derived at startup, another on its arrival, closed
\* on its departure
C16_Witness ==
    /\ Len(wLog) = 5
    /\ [k \in 1..5 |-> wLog[k].op] = <<"Open", "SelfDerive", "Open", "SelfDerive", "Close">>
    /\ wLog[1].from = "startup" /\ wLog[3].from = "event"
    /\ wLog[5].wallet = wLog[3].wallet
    /\ Len(Derivations) = 2

(* ---------------------------------------------------------------------- *)
(* Claims about the attached clients                                       *)
(* ---------------------------------------------------------------------- *)
(* C17, as claimed: the chain-state reader of the goroutine is the client *)
(* that is passed to the EthermintApplication and stored in the returned  *)
(* Services; one Attach serves both.                                      *)
C17_ClaimedSharedClient ==
    /\ attaches <= 1
    /\ (stateReader # 0 /\ rpcClient # 0) => stateReader = rpcClient
    /\ ethApp.made => ethApp.client = rpcClient
    /\ returned.done => returned.rpcClient = rpcClient

(* C17, amended: the client passed to the EthermintApplication and stored *)
(* in the returned Services is one instance, attached by startServices;   *)
(* the chain-state reader of the goroutine is another instance, attached  *)
(* by the goroutine itself: two Attach calls are made, and every          *)
(* SelfDerive of the goroutine is given the reader of the goroutine.      *)
C17_TwoAttachedClients ==
    /\ attaches = (IF rpcClient # 0 THEN 1 ELSE 0) + (IF stateReader # 0 THEN 1 ELSE 0)
    /\ (stateReader # 0 /\ rpcClient # 0) => stateReader # rpcClient /\ attaches = 2
    /\ rpcClient # 0 => pc \in {"newApp", "newServer", "srvStart", "baseApp", "tendermint",
                                 "return", "done"}
    /\ stateReader # 0 => wpc \in {"wallets", "startup", "listen"}
    /\ ethApp.made => rpcClient # 0 /\ ethApp.client = rpcClient
    /\ returned.done =>
        /\ returned.rpcClient # 0
        /\ returned.rpcClient = rpcClient
        /\ returned.rpcClient = ethApp.client
        /\ returned.rpcClient # stateReader
    /\ \A k \in DOMAIN wLog :
        /\ stateReader # 0
        /\ wLog[k].reader = stateReader
        /\ wLog[k].reader # rpcClient

\* startServices has returned its handle and the goroutine has derived a
\* wallet on its own reader
C17_Witness ==
    /\ returned.done
    /\ attaches = 2
    /\ ethApp.client = returned.rpcClient
    /\ stateReader \notin {0, returned.rpcClient}
    /\ \E k \in DOMAIN wLog : wLog[k].op = "SelfDerive" /\ wLog[k].reader = stateReader

(* ---------------------------------------------------------------------- *)
(* Claims about retrying with a supplied password list                     *)
(* ---------------------------------------------------------------------- *)
(* C18: with a supplied password list the password of an entry is chosen  *)
(* by the position of the entry in the raw comma-split list, blank        *)
(* entries counted, and every attempt for the entry uses that password;   *)
(* so after a decryption error on the first attempt the entry is never    *)
(* unlocked: the Unlock calls that follow use the identical password, and *)
(* the process exits fatally after the third of them (sooner only when an *)
(* attempt fails with an error that is not a decryption error).           *)
C18_SamePasswordEveryRetry ==
    Len(passwords) > 0 =>
        LET due == Due(unlockFlag)
            last == Len(passwords) - 1
        IN  /\ \A k \in DOMAIN unlockLog :
                LET e == unlockLog[k]
                IN  /\ \E d \in DOMAIN due :
                        due[d].idx = e.idx /\ due[d].address = <<e.acct.addr>>
                    /\ e.pw = passwords[(IF e.idx < last THEN e.idx ELSE last) + 1]
                    /\ \A j \in DOMAIN unlockLog :
                        unlockLog[j].idx = e.idx => unlockLog[j].pw = e.pw
            /\ \A idx \in 0..Len(unlockFlag) :
                LET calls == RetryCalls(idx)
                    n == Len(calls)
                IN  (n > 0 /\ calls[1].res = "decrypt") =>
                        /\ i = idx
                        /\ \A k \in 1..n : calls[k].res \in {"decrypt", "ioerr"}
                        /\ \A k \in 1..(n - 1) : calls[k].res = "decrypt"
                        /\ CallsFor(idx) = calls
                        /\ IF n = 3 \/ calls[n].res = "ioerr"
                           THEN exited /\ exitWhy = "Unlock"
                           ELSE ~exited /\ pc = "trial" /\ trials = n

\* ",a" with the passwords p1, p2: the address is at position 1 and gets
\* p2, which fails to decrypt three times; then the fatal exit
C18_Witness ==
    /\ unlockFlag = <<Comma, "a">>
    /\ passwords = <<"p1", "p2">>
    /\ exited /\ exitWhy = "Unlock"
    /\ Len(unlockLog) = 3
    /\ \A k \in 1..3 :
        unlockLog[k].idx = 1 /\ unlockLog[k].pw = "p2" /\ unlockLog[k].res = "decrypt"

(* ---------------------------------------------------------------------- *)
(* Claims about the goroutine beside the main sequence                     *)
(* ---------------------------------------------------------------------- *)
\* the Attach of the goroutine fails
WatcherAttachFails == WatcherAttach /\ exited'

(* C19: the goroutine attaches its own client after it was spawned, and a *)
(* failure of that Attach ends the whole process; it can happen at every  *)
(* position the main sequence can be in after the go statement, also      *)
(* after startServices has returned, and then the goroutine has opened no *)
(* wallet and received no event.                                          *)
C19_WatcherAttachFatal ==
    /\ exitWhy = "watcher Attach" =>
        /\ exited
        /\ wpc = "attach" /\ stateReader = 0
        /\ wLog = <<>> /\ wList = <<>>
        /\ events = emitted
        /\ pc \in AfterSpawn \cup {"done"}
    /\ (wLog # <<>> \/ wpc \in {"wallets", "startup", "listen"}) => stateReader # 0
    /\ stateReader # 0 => subscribed /\ pc \in AfterSpawn \cup {"done"}
    /\ wpc = "attach" => stateReader = 0 /\ pc \in AfterSpawn \cup {"done"}
    /\ (Running /\ wpc = "attach") => ENABLED WatcherAttachFails

\* startServices has returned its handle, a wallet is plugged in, and the
\* Attach of the goroutine fails: the process ends with no wallet opened
C19_Witness ==
    /\ exited /\ exitWhy = "watcher Attach"
    /\ pc = "done" /\ returned.done /\ tmNode = "running"
    /\ plugged # {}
    /\ wLog = <<>>

\* wallet w was known to the account manager before Subscribe: its first
\* event, if it has one, is a departure
KnownAtSubscribe(w) ==
    LET evs == SelectSeq(emitted, LAMBDA e : e.wallet = w)
    IN  IF evs = <<>> THEN w \in plugged ELSE ~evs[1].arrive

\* the attachments of wallet w so far: the one before Subscribe, if any,
\* and one for each arrival event
Attachments(w) ==
    (IF KnownAtSubscribe(w) THEN 1 ELSE 0)
    + Len(SelectSeq(emitted, LAMBDA e : e.wallet = w /\ e.arrive))

\* the Open calls the goroutine made on wallet w
Opens(w) == Len(SelectSeq(wLog, LAMBDA c : c.op = "Open" /\ c.wallet = w))

(* C20: with one arrival event per attachment of a wallet and one         *)
(* departure event per detachment, the goroutine calls Open at most once  *)
(* per attachment of a wallet, also for a wallet that is attached after   *)
(* Subscribe and before the goroutine lists the known wallets.  That      *)
(* wallet is in the listing and in the channel, and is opened for both.   *)
C20_OpenOncePerAttachment == \A w \in Wallets : Opens(w) <= Attachments(w)

====
